---- MODULE Spec2Model ----
\* Verification model of hypatia-earth/zero's octahedral reduced Gaussian grid
\* tooling: the grid topology tables and the sampler of scripts/temp-to-png.py,
\* the renderers, the fixture generators of tests/scripts and the timestep
\* merge of scripts/test-discovery.py.
\*
\* Numbers.  Latitudes are fixed point, one unit = 2^-29 rad, so that a
\* float32 store (24 significant bits) is modelled bit-exactly for every
\* |lat| >= 2^-5 rad and as the identity below (float32 is finer than the
\* unit there).  Longitudes are exact fractions of a turn, num/den, with an
\* optional "one ulp below" mark; float rounding of the longitude product is
\* a nondeterministic choice exactly where one ulp can change the integer part.
EXTENDS Integers, Sequences, FiniteSets, TLC

VARIABLES
    script,      \* which program of the repository this run executes
    res,         \* grid resolution of the run (the source's N)
    pc,          \* control position inside the running function
    i,           \* loop index of generate_gaussian_lats / generate_ring_offsets
    cumulative,  \* generate_ring_offsets: running point total
    lats,        \* latitude table (float32), built by generate_gaussian_lats
    offsets,     \* ring offset table (uint32), built by generate_ring_offsets
    ring,        \* local "ring" of generate_gaussian_grid / get_value
    idx,         \* local "idx" of generate_gaussian_grid / get_value
    lat,         \* get_value: argument lat (fixed-point radians)
    lon,         \* get_value: argument lon (a longitude record, see below)
    data,        \* the value array read by main (a data record, see below)
    found,       \* get_value: what find_ring returned, before the clamp
    lon_idx,     \* get_value: local lon_idx
    value,       \* get_value: the value returned
    x,           \* main: pixel loop variable x
    y,           \* main: pixel loop variable y
    values,      \* temp-to-png main: reprojected buffer, row-major
    pixels,      \* main: the image's pixels, row-major
    data_min,    \* temp-to-png main: np.min(values)
    data_max,    \* temp-to-png main: np.max(values)
    data_range,  \* temp-to-png main: data_range
    min_t,       \* test/temp-to-png main: <<>> for float('inf'), else <<v>>
    max_t,       \* test/temp-to-png main: <<>> for float('-inf'), else <<v>>
    cyc,         \* generate_cyclone: arguments and locals at one grid point
    rng,         \* state of numpy's global pseudo-random generator
    grid,        \* the (lat, lon) arrays handed to the field generators
    files,       \* fixture files written so far: [name, content]
    last,        \* the generator called last, and rng when it was entered
    entered,     \* rng at the first entry of generate_pressure, <<>> before
    varied,      \* generate_pressure was entered at two different rng states
    model,       \* test-discovery main: the model named on the command line
    runs,        \* discover_runs(model): the runs, oldest first
    listing,     \* list_run_files of the last run: its timesteps, sorted
    timesteps,   \* the list generate_timesteps_* returns
    sample,      \* verify_timesteps: indices, the sampled positions
    probe,       \* verify_timesteps: how many of them the loop has handled
    report,      \* verify_timesteps: the lines printed, <<idx, status>>
    argv,        \* main of the converters: sys.argv
    input_file,  \* main of the converters
    output_file, \* main of the converters
    point        \* one grid point as generate_gaussian_grid writes it

topoVars == <<script, res, pc, i, cumulative, lats, offsets, ring, idx>>
sampVars == <<lat, lon, data, found, lon_idx, value>>
rendVars == <<x, y, values, pixels, data_min, data_max, data_range, min_t, max_t>>

fixtVars == <<cyc>>

synthVars == <<rng, grid, files, last, entered, varied>>

discVars == <<model, runs, listing, timesteps>>

verVars == <<sample, probe, report>>

cliVars == <<argv, input_file, output_file>>

tripVars == <<point>>

toolVars == <<verVars, cliVars, tripVars>>

nonTopo == <<sampVars, rendVars, fixtVars, synthVars, discVars, toolVars>>

vars == <<topoVars, nonTopo>>

-----------------------------------------------------------------------------
\* Program constants

N == 1280
O1280_POINTS == 6599680

\* Bounds of the model
MaxN == 3

\* Grid resolutions explored: every small N, and the program's own N.
GridSizes == (1..MaxN) \cup {N}

NUM_RINGS(n) == 2 * n

-----------------------------------------------------------------------------
\* Fixed-point radians

\* round(pi * 2^29): np.pi in units of 2^-29 rad
PI_FX == 1686629713

Abs(a) == IF a < 0 THEN -a ELSE a
Sgn(a) == IF a < 0 THEN -1 ELSE 1

\* floor(a * b / c) for 0 <= a <= c and b >= 0, without leaving 32-bit range
MulDiv(a, b, c) == a * (b \div c) + (a * (b % c)) \div c

\* the largest power of two q with v / q >= 2^23, for 2^24 <= v < 2^30
F32Quantum(v) ==
    IF v < 33554432 THEN 2
    ELSE IF v < 67108864 THEN 4
    ELSE IF v < 134217728 THEN 8
    ELSE IF v < 268435456 THEN 16
    ELSE IF v < 536870912 THEN 32
    ELSE 64

\* round half to even of v / q, times q
RoundHalfEven(v, q) ==
    LET lo == v \div q
        r2 == 2 * (v % q)
    IN  IF r2 < q \/ (r2 = q /\ lo % 2 = 0) THEN lo * q ELSE (lo + 1) * q

\* a float64 value stored into a dtype=np.float32 array
Float32(v) ==
    IF Abs(v) < 16777216 THEN v
    ELSE Sgn(v) * RoundHalfEven(Abs(v), F32Quantum(Abs(v)))

\* np.radians(90 - (k + 0.5) * 180 / NUM_RINGS) = (NUM_RINGS - 2k - 1) * pi / (2 * NUM_RINGS)
RingLatRad(n, k) ==
    LET a == NUM_RINGS(n) - 2 * k - 1
    IN  Sgn(a) * MulDiv(Abs(a), PI_FX, 2 * NUM_RINGS(n))

-----------------------------------------------------------------------------
\* Grid topology

\* mutant: the southern half starts one ring late
ring_from_pole_late(n, k) == IF k <= n THEN k + 1 ELSE NUM_RINGS(n) - k

ring_from_pole(n, k) == IF k < n THEN k + 1 ELSE NUM_RINGS(n) - k

points_in_ring(n, k) == 4 * ring_from_pole(n, k) + 16

\* generate_gaussian_lats: the entries the loop stores for rings lo .. hi - 1
RECURSIVE LatsLoop(_, _, _)
LatsLoop(n, lo, hi) ==
    IF hi <= lo THEN <<>>
    ELSE IF hi = lo + 1 THEN <<Float32(RingLatRad(n, lo))>>
    ELSE LET mid == (lo + hi) \div 2
         IN  LatsLoop(n, lo, mid) \o LatsLoop(n, mid, hi)

generate_gaussian_lats(n) == LatsLoop(n, 0, NUM_RINGS(n))

\* generate_ring_offsets: one iteration of the loop.  The uint32 store cannot
\* wrap: cumulative stays below 2^31 for every resolution explored.
OffsetsStep ==
    /\ pc = "offsets"
    /\ i < NUM_RINGS(res)
    /\ offsets' = Append(offsets, cumulative)
    /\ cumulative' = cumulative + points_in_ring(res, i)
    /\ i' = i + 1
    /\ UNCHANGED <<script, res, pc, lats, ring, idx, nonTopo>>

\* generate_ring_offsets: return offsets
OffsetsReturn ==
    /\ pc = "offsets"
    /\ i = NUM_RINGS(res)
    /\ pc' = "offsets_done"
    /\ UNCHANGED <<script, res, i, cumulative, lats, offsets, ring, idx, nonTopo>>

\* cumulative after rings lo .. hi - 1 have been added, starting from 0
RECURSIVE RingPointSum(_, _, _)
RingPointSum(n, lo, hi) ==
    IF hi <= lo THEN 0
    ELSE IF hi = lo + 1 THEN points_in_ring(n, lo)
    ELSE LET mid == (lo + hi) \div 2
         IN  RingPointSum(n, lo, mid) + RingPointSum(n, mid, hi)

\* generate_ring_offsets: the entries the loop stores for rings lo .. hi - 1
\* when cumulative is c on reaching ring lo
RECURSIVE OffsetsLoop(_, _, _, _)
OffsetsLoop(n, lo, hi, c) ==
    IF hi <= lo THEN <<>>
    ELSE IF hi = lo + 1 THEN <<c>>
    ELSE LET mid == (lo + hi) \div 2
         IN  OffsetsLoop(n, lo, mid, c)
                \o OffsetsLoop(n, mid, hi, c + RingPointSum(n, lo, mid))

generate_ring_offsets(n) == OffsetsLoop(n, 0, NUM_RINGS(n), 0)

\* generate_gaussian_grid: one ring of the outer loop, its inner loop run to
\* the end.  lats[idx] / lons[idx] are written for idx .. idx + n_points - 1;
\* a write at or past O1280_POINTS raises IndexError.
GridRing ==
    /\ pc = "grid"
    /\ ring < NUM_RINGS(N)
    /\ LET n_points == points_in_ring(N, ring)
       IN  IF idx + n_points > O1280_POINTS
           THEN /\ pc' = "IndexError"
                /\ idx' = O1280_POINTS
                /\ ring' = ring
           ELSE /\ pc' = pc
                /\ idx' = idx + n_points
                /\ ring' = ring + 1
    /\ UNCHANGED <<script, res, i, cumulative, lats, offsets, nonTopo>>

\* generate_gaussian_grid: return lats, lons
GridReturn ==
    /\ pc = "grid"
    /\ ring = NUM_RINGS(N)
    /\ pc' = "grid_done"
    /\ UNCHANGED <<script, res, i, cumulative, lats, offsets, ring, idx, nonTopo>>

-----------------------------------------------------------------------------
\* Sampler (scripts/temp-to-png.py get_value, test/temp-to-png.py get_temp)

\* Bounds of the query sets
LonDen == 7

\* float64: the largest finite value is just below 2^DBL_MAX_EXP
DBL_MAX_EXP == 1024

\* A longitude argument.
\*   kind "rat": 2*pi*num/den radians, less one ulp when eps = -1
\*   kind "big": num * 2^exp radians with num in {-1, 1} (far outside [-pi, pi])
LonRat(a, d, e) == [kind |-> "rat", num |-> a, den |-> d, eps |-> e, exp |-> 0]
LonBig(s, e) == [kind |-> "big", num |-> s, den |-> 1, eps |-> 0, exp |-> e]

\* A value array of len elements.  uniform: np.full(len, fill); otherwise
\* every element carries its own index, data[k] = k + 1, and none is the
\* sentinel 0.
UniformData(len, c) == [len |-> len, uniform |-> TRUE, fill |-> c]
IndexData(len) == [len |-> len, uniform |-> FALSE, fill |-> 0]

\* data[k]
DataAt(d, k) == IF d.uniform THEN d.fill ELSE k + 1

Min(a, b) == IF a < b THEN a ELSE b

RECURSIVE Pow2(_)
Pow2(k) == IF k = 0 THEN 1 ELSE 2 * Pow2(k - 1)

\* np.searchsorted(-tab, v), side='left': the binary search for the leftmost
\* insertion point, on the negated table; lo and hi are 0-based
RECURSIVE SearchSortedNeg(_, _, _, _)
SearchSortedNeg(tab, v, lo, hi) ==
    IF lo >= hi THEN lo
    ELSE LET mid == (lo + hi) \div 2
         IN  IF -tab[mid + 1] < v
             THEN SearchSortedNeg(tab, v, mid + 1, hi)
             ELSE SearchSortedNeg(tab, v, lo, mid)

\* mutant: the query is searched without being negated
find_ring_unnegated(la, tab) == SearchSortedNeg(tab, la, 0, Len(tab))

find_ring(la, tab) == SearchSortedNeg(tab, -la, 0, Len(tab))

\* lon_norm = lon if lon >= 0 else lon + 2 * np.pi
\* (2*pi is absorbed by rounding when added to a "big" longitude)
lon_norm(lo) ==
    IF lo.kind = "big" THEN lo
    ELSE IF lo.num > 0 \/ (lo.num = 0 /\ lo.eps = 0) THEN lo
    ELSE [lo EXCEPT !.num = @ + lo.den]

\* mutant: round(x) in place of int(x)
RoundDiv(p, d) == Sgn(p) * ((2 * Abs(p) + d) \div (2 * d))

\* int(x): truncation toward zero of p / d
TruncDiv(p, d) == Sgn(p) * (Abs(p) \div d)

\* lon_norm / (2 * np.pi) * n_points is +-inf: |lon| * n / (2*pi) >= 2^1024,
\* with 2*pi = 710/113 (no n makes the two sides equal, 113 being prime)
ProductOverflows(ln, n) ==
    /\ ln.kind = "big"
    /\ DBL_MAX_EXP - ln.exp <= 20
    /\ 113 * n >= 710 * Pow2(DBL_MAX_EXP - ln.exp)

\* The values int(lon_norm / (2 * np.pi) * n_points) can take.  An exact
\* fraction gives its exact truncation.  One ulp below a positive integer k
\* the float product is either still below k (int gives k - 1) or rounds to k.
\* The integer part of a "big" product is not computed: any residue may follow.
LonProducts(ln, n) ==
    IF ln.kind = "big" THEN 0 .. (n - 1)
    ELSE LET p == ln.num * n
         IN  IF ln.eps = -1 /\ p % ln.den = 0 /\ p > 0
             THEN {p \div ln.den - 1, p \div ln.den}
             ELSE {TruncDiv(p, ln.den)}

\* mutant: the "% n_points" is left out
LonIdxNoModulo(lo, n) == LonProducts(lon_norm(lo), n)

\* lon_idx = int(lon_norm / (2 * np.pi) * n_points) % n_points
LonIdxChoices(lo, n) == {q % n : q \in LonProducts(lon_norm(lo), n)}

\* data[idx] if idx < len(data) else 0
Fetch(d, k) == IF k < d.len THEN DataAt(d, k) ELSE 0

HALF_PI_FX == (PI_FX + 1) \div 2

\* Query latitudes: the poles and out-of-range values, every ring centre as
\* stored and, for the small grids, the neighbours of every centre and the
\* midpoints between centres.
PoleLats == {HALF_PI_FX, -HALF_PI_FX, PI_FX, -PI_FX}

CentreLats == {lats[k] : k \in 1..Len(lats)}

NearCentreLats ==
    {lats[k] + 1 : k \in 1..Len(lats)}
    \cup {lats[k] - 1 : k \in 1..Len(lats)}
    \cup {(lats[k] + lats[k + 1]) \div 2 : k \in 1..(Len(lats) - 1)}

MinusPi == LonRat(-1, 2, 0)
PiMinusEps == LonRat(1, 2, -1)
LonZero == LonRat(0, 1, 0)
MinusEps == LonRat(0, 1, -1)

SeamLons == {MinusPi, PiMinusEps, LonZero, MinusEps}

\* Query longitudes: the two seams, every multiple of 1/LonDen turn in
\* [-2 turns, 2 turns] and one ulp below it, and huge finite values.
LonQueries ==
    SeamLons
    \cup {LonRat(a, LonDen, e) : a \in (-2 * LonDen)..(2 * LonDen), e \in {-1, 0}}
    \cup {LonBig(s, e) : s \in {-1, 1}, e \in {100, 1022, 1023}}

\* The (lat, lon) queries.  Small grids: every latitude with every longitude.
\* N = 1280: every ring centre at lon = 0, and the seams at the poles, on the
\* first and last ring and on the two rings next to the equator.
Queries ==
    IF res = N
    THEN (CentreLats \X {LonZero})
         \cup ((PoleLats \cup {lats[1], lats[N], lats[N + 1], lats[2 * N]}) \X SeamLons)
    ELSE (PoleLats \cup CentreLats \cup NearCentreLats) \X LonQueries

\* len(data): complete, and for the small grids also empty and truncated
DataLens == {cumulative} \cup (IF res = N THEN {} ELSE {0, cumulative \div 2})

\* get_value(lat, lon, data, lats, offsets): what one call can do, given the
\* tables of the state: raise (err), or return value with these locals
get_value(la, lo, d) ==
    LET f == find_ring(la, lats)
        r == Min(f, NUM_RINGS(res) - 1)
        n_points == points_in_ring(res, r)
    IN  IF ProductOverflows(lon_norm(lo), n_points)
        THEN {[err |-> TRUE, found |-> f, ring |-> r, lon_idx |-> 0, idx |-> 0,
               value |-> 0]}
        ELSE {[err |-> FALSE, found |-> f, ring |-> r, lon_idx |-> li,
               idx |-> offsets[r + 1] + li,
               value |-> Fetch(d, offsets[r + 1] + li)] :
                  li \in LonIdxChoices(lo, n_points)}

\* one call of get_value on a query
GetValue ==
    /\ script = "temp-to-png"
    /\ pc = "offsets_done"
    /\ \E q \in Queries, len \in DataLens :
        \E out \in get_value(q[1], q[2], IndexData(len)) :
            /\ lat' = q[1]
            /\ lon' = q[2]
            /\ data' = IndexData(len)
            /\ found' = out.found
            /\ ring' = out.ring
            /\ lon_idx' = out.lon_idx
            /\ idx' = out.idx
            /\ value' = out.value
            /\ pc' = IF out.err THEN "OverflowError" ELSE "sampled"
    /\ UNCHANGED <<script, res, i, cumulative, lats, offsets, rendVars, fixtVars, synthVars, discVars, toolVars>>

-----------------------------------------------------------------------------
\* Reprojection (scripts/temp-to-png.py main, test/temp-to-png.py main)

\* Bounds: the raster explored, standing for WIDTH x HEIGHT
RasterW == 4
RasterH == 3

\* Uniform fill values (degrees C) whose colour arithmetic is exact in binary
\* floating point: t = (c + 50) / 100 is 0, 1/4, 1/2, 3/4 or 1 before or
\* after the clamp
Temps == {-60, -50, -25, 0, 25, 50, 55}

Max(a, b) == IF a > b THEN a ELSE b

\* lat = (0.5 - y / HEIGHT) * np.pi
PixelLat(yy) ==
    LET a == RasterH - 2 * yy
    IN  Sgn(a) * MulDiv(Abs(a), PI_FX, 2 * RasterH)

\* lon = (x / WIDTH) * 2 * np.pi - np.pi
PixelLon(xx) == LonRat(2 * xx - RasterW, 2 * RasterW, 0)

\* mutant: t is clamped to [0, 2] instead of [0, 1]
ClampTUpperTwo(temp_c) == Max(0, Min(200, temp_c + 50))

\* t = max(0, min(1, (temp_c + 50) / 100)), in hundredths
ClampT(temp_c) == Max(0, Min(100, temp_c + 50))

\* temp_to_rgb(temp_c): int(r * 255), int(g * 255), int(b * 255)
temp_to_rgb(temp_c) ==
    LET t == ClampT(temp_c)
    IN  IF t < 25 THEN <<0, TruncDiv(t * 4 * 255, 100), 255>>
        ELSE IF t < 50 THEN <<0, 255, TruncDiv((100 - (t - 25) * 4) * 255, 100)>>
        ELSE IF t < 75 THEN <<TruncDiv((t - 50) * 4 * 255, 100), 255, 0>>
        ELSE <<255, TruncDiv((100 - (t - 75) * 4) * 255, 100), 0>>

RECURSIVE SeqMin(_)
SeqMin(q) ==
    IF Len(q) = 1 THEN q[1] ELSE Min(q[1], SeqMin(Tail(q)))

RECURSIVE SeqMax(_)
SeqMax(q) ==
    IF Len(q) = 1 THEN q[1] ELSE Max(q[1], SeqMax(Tail(q)))

\* the pixel loops: for y in range(HEIGHT): for x in range(WIDTH)
NextX == IF x + 1 = RasterW THEN 0 ELSE x + 1
NextY == IF x + 1 = RasterW THEN y + 1 ELSE y

\* temp-to-png main, first pass: values[y, x] = get_value(lat, lon, ...)
GrayPass1Pixel ==
    /\ script = "temp-to-png"
    /\ pc = "pass1"
    /\ y < RasterH
    /\ \E out \in get_value(PixelLat(y), PixelLon(x), data) :
        IF out.err
        THEN /\ pc' = "OverflowError"
             /\ UNCHANGED <<x, y, values>>
        ELSE /\ values' = Append(values, out.value)
             /\ x' = NextX
             /\ y' = NextY
             /\ pc' = pc
    /\ UNCHANGED <<script, res, i, cumulative, lats, offsets, ring, idx,
                   sampVars, fixtVars, synthVars, discVars, toolVars, pixels, data_min, data_max, data_range,
                   min_t, max_t>>

\* temp-to-png main: data_min, data_max, data_range
GrayMinMax ==
    /\ script = "temp-to-png"
    /\ pc = "pass1"
    /\ y = RasterH
    /\ data_min' = SeqMin(values)
    /\ data_max' = SeqMax(values)
    /\ data_range' = IF SeqMax(values) > SeqMin(values)
                     THEN SeqMax(values) - SeqMin(values) ELSE 1
    /\ x' = 0
    /\ y' = 0
    /\ pc' = "pass2"
    /\ UNCHANGED <<script, res, i, cumulative, lats, offsets, ring, idx,
                   sampVars, fixtVars, synthVars, discVars, toolVars, values, pixels, min_t, max_t>>

\* temp-to-png main, second pass: gray = int(255 * (val - data_min) /
\* data_range), clamped to 0..255
GrayPass2Pixel ==
    /\ script = "temp-to-png"
    /\ pc = "pass2"
    /\ y < RasterH
    /\ LET val == values[y * RasterW + x + 1]
           gray == TruncDiv(255 * (val - data_min), data_range)
       IN  pixels' = Append(pixels, Max(0, Min(255, gray)))
    /\ x' = NextX
    /\ y' = NextY
    /\ UNCHANGED <<script, res, pc, i, cumulative, lats, offsets, ring, idx,
                   sampVars, fixtVars, synthVars, discVars, toolVars, values, data_min, data_max, data_range,
                   min_t, max_t>>

\* test/temp-to-png main, the single pass: temp = get_temp(...), min_t,
\* max_t, pixels[x, y] = temp_to_rgb(temp)
HuePixel ==
    /\ script = "test/temp-to-png"
    /\ pc = "pass1"
    /\ y < RasterH
    /\ \E out \in get_value(PixelLat(y), PixelLon(x), data) :
        IF out.err
        THEN /\ pc' = "OverflowError"
             /\ UNCHANGED <<x, y, pixels, min_t, max_t>>
        ELSE /\ min_t' = IF min_t = <<>> THEN <<out.value>>
                         ELSE <<Min(min_t[1], out.value)>>
             /\ max_t' = IF max_t = <<>> THEN <<out.value>>
                         ELSE <<Max(max_t[1], out.value)>>
             /\ pixels' = Append(pixels, temp_to_rgb(out.value))
             /\ x' = NextX
             /\ y' = NextY
             /\ pc' = pc
    /\ UNCHANGED <<script, res, i, cumulative, lats, offsets, ring, idx,
                   sampVars, fixtVars, synthVars, discVars, toolVars, values, data_min, data_max, data_range>>

\* img.save(output_file), in either program
Save ==
    /\ pc = IF script = "temp-to-png" THEN "pass2" ELSE "pass1"
    /\ script \in {"temp-to-png", "test/temp-to-png"}
    /\ y = RasterH
    /\ pc' = "saved"
    /\ UNCHANGED <<script, res, i, cumulative, lats, offsets, ring, idx,
                   sampVars, rendVars, fixtVars, synthVars, discVars, toolVars>>

-----------------------------------------------------------------------------
\* Wind fixture (tests/scripts/generate_wind_fixtures.py generate_cyclone)
\*
\* Angles here are fixed point in units of 1/1000 rad; speeds and wind
\* components are exact fractions <<numerator, denominator>>.

\* np.pi in 1/1000 rad
PI_MILLI == 3142

\* largest r in lo .. hi with r * r <= v
RECURSIVE ISqrtIn(_, _, _)
ISqrtIn(v, lo, hi) ==
    IF lo >= hi THEN lo
    ELSE LET mid == (lo + hi + 1) \div 2
         IN  IF mid * mid <= v THEN ISqrtIn(v, mid, hi)
             ELSE ISqrtIn(v, lo, mid - 1)

\* np.sqrt, rounded down to 1/1000 rad
Sqrt(v) == ISqrtIn(v, 0, 8000)

\* np.cos(a) in thousandths, by its series up to a^8 (|a| <= pi/2)
Cos(a) ==
    LET x2 == (a * a) \div 1000
        x4 == (x2 * x2) \div 1000
        x6 == (x4 * x2) \div 1000
        x8 == (x6 * x2) \div 1000
    IN  1000 - x2 \div 2 + x4 \div 24 - x6 \div 720 + x8 \div 40320

\* dlon = np.where(dlon > np.pi, dlon - 2*np.pi, dlon)
\* dlon = np.where(dlon < -np.pi, dlon + 2*np.pi, dlon)
WrapLon(dlon) ==
    LET d1 == IF dlon > PI_MILLI THEN dlon - 2 * PI_MILLI ELSE dlon
    IN  IF d1 < -PI_MILLI THEN d1 + 2 * PI_MILLI ELSE d1

\* speed[inside_core] = max_wind * (dist / core_radius)
SpeedInside(dist, p) == <<p.max_wind * dist, p.core_radius>>

\* mutant: the decay is measured from the centre, not from the core radius
SpeedBetweenFromCentre(dist, p) ==
    <<p.max_wind * ((p.outer_radius - p.core_radius) - dist),
      p.outer_radius - p.core_radius>>

\* decay = 1 - (dist - core_radius) / (outer_radius - core_radius)
\* speed[between] = max_wind * decay
SpeedBetween(dist, p) ==
    <<p.max_wind * ((p.outer_radius - p.core_radius) - (dist - p.core_radius)),
      p.outer_radius - p.core_radius>>

\* the wind speed profile: np.zeros_like, then the two masked assignments
Speed(dist, p) ==
    IF dist < p.core_radius THEN SpeedInside(dist, p)
    ELSE IF dist >= p.core_radius /\ dist < p.outer_radius THEN SpeedBetween(dist, p)
    ELSE <<0, 1>>

\* dist_safe = np.maximum(dist, 1e-6): 1e-6 rad is 1/1000 of the unit
DistSafe(dist) == IF dist = 0 THEN <<1, 1000>> ELSE <<dist, 1>>

\* generate_cyclone at one grid point (lat, lon), with parameters p
generate_cyclone(la, lo, p) ==
    LET dlat == la - p.center_lat
        dlon == WrapLon(lo - p.center_lon)
        dlon_scaled == TruncDiv(dlon * Cos(la), 1000)
        dist2 == dlat * dlat + dlon_scaled * dlon_scaled
        dist == Sqrt(dist2)
        speed == Speed(dist, p)
        ds == DistSafe(dist)
        \* tang_lat = -dlon_scaled / dist_safe, tang_lon = dlat / dist_safe
        tang_lat == <<(-dlon_scaled) * ds[2], ds[1]>>
        tang_lon == <<dlat * ds[2], ds[1]>>
        \* rad_lat = -dlat / dist_safe, rad_lon = -dlon_scaled / dist_safe
        rad_lat == <<(-dlat) * ds[2], ds[1]>>
        rad_lon == <<(-dlon_scaled) * ds[2], ds[1]>>
        \* radial_strength = 0.3 = 3/10
        dir_u == <<10 * tang_lon[1] + 3 * rad_lon[1], 10 * ds[1]>>
        dir_v == <<10 * tang_lat[1] + 3 * rad_lat[1], 10 * ds[1]>>
    IN  [lat |-> la, lon |-> lo, p |-> p,
         dlat |-> dlat, dlon |-> dlon, dlon_scaled |-> dlon_scaled,
         dist2 |-> dist2, dist |-> dist, speed |-> speed,
         tang_lat |-> tang_lat, tang_lon |-> tang_lon,
         rad_lat |-> rad_lat, rad_lon |-> rad_lon,
         u |-> <<speed[1] * dir_u[1], speed[2] * dir_u[2]>>,
         v |-> <<speed[1] * dir_v[1], speed[2] * dir_v[2]>>]

\* main's call generate_cyclone(lats, lons), and a second storm
CycloneParams ==
    {[center_lat |-> 0, center_lon |-> 0, max_wind |-> 25,
      core_radius |-> 100, outer_radius |-> 800],
     [center_lat |-> 300, center_lon |-> 6000, max_wind |-> 10,
      core_radius |-> 200, outer_radius |-> 500]}

\* grid points offered to generate_cyclone: latitudes in [-pi/2, pi/2],
\* longitudes in [0, 2*pi) as generate_gaussian_grid produces them
CycloneLats == {-1571, -800, -300, -100, -40, 0, 30, 100, 300, 400, 500, 800, 1571}
CycloneLons == {0, 30, 40, 100, 300, 600, 800, 3142, 5484, 5700, 6000, 6184, 6283}

NoCyclone ==
    [lat |-> 0, lon |-> 0,
     p |-> [center_lat |-> 0, center_lon |-> 0, max_wind |-> 0,
            core_radius |-> 0, outer_radius |-> 0],
     dlat |-> 0, dlon |-> 0, dlon_scaled |-> 0, dist2 |-> 0, dist |-> 0,
     speed |-> <<0, 1>>, tang_lat |-> <<0, 1>>, tang_lon |-> <<0, 1>>,
     rad_lat |-> <<0, 1>>, rad_lon |-> <<0, 1>>, u |-> <<0, 1>>, v |-> <<0, 1>>]

\* u, v = generate_cyclone(lats, lons), at one point of the arrays
GenerateCyclone ==
    /\ script = "generate_wind_fixtures"
    /\ pc = "cyclone"
    /\ \E la \in CycloneLats, lo \in CycloneLons, p \in CycloneParams :
          cyc' = generate_cyclone(la, lo, p)
    /\ pc' = "cyclone_done"
    /\ UNCHANGED <<script, res, i, cumulative, lats, offsets, ring, idx,
                   sampVars, rendVars, synthVars, discVars, toolVars>>

-----------------------------------------------------------------------------
\* Pressure fixture (tests/scripts/generate_pressure_fixtures.py), uniform
\* fixtures (tests/scripts/generate_test_bins.py) and numpy's global generator
\*
\* Pressures are whole pascals, angles 1/1000 rad, influences 1/10000.

MaxPoints == 2
RngMod == 8

BASE_PRESSURE == 101200
LOW_PRESSURE == 97600
HIGH_PRESSURE == 104800
NOISE_AMPLITUDE == 100
SEED == 42
LOW_LAT == 10
LOW_LON == 10
HIGH_LAT == -10
HIGH_LON == -10

\* INFLUENCE_RADIUS = 0.5 rad
INFLUENCE_RADIUS == 500

\* the states of the generator (the Mersenne Twister, cut down to RngMod)
RngStates == 0 .. (RngMod - 1)

\* one step of the generator
RngStep(s) == (5 * s + 3) % RngMod

\* mutant: the seed call leaves the generator as it was
seed_ignored(cur, s) == cur

\* np.random.seed(s): the state no longer depends on the state before
seed(cur, s) == s % RngMod

\* np.random.uniform(lo, hi, n) from state s: n draws, filled in index order
RECURSIVE uniform(_, _, _, _)
uniform(lo, hi, n, s) ==
    IF n = 0 THEN [out |-> <<>>, rng |-> s]
    ELSE LET s1 == RngStep(s)
             rest == uniform(lo, hi, n - 1, s1)
         IN  [out |-> <<lo + ((hi - lo) * s1) \div RngMod>> \o rest.out,
              rng |-> rest.rng]

\* np.radians(deg) in 1/1000 rad
Radians(deg) == TruncDiv(deg * PI_MILLI, 180)

\* angular_distance(lat1, lon1, lat2, lon2)
angular_distance(lat1, lon1, lat2, lon2) ==
    LET dlat == lat1 - lat2
        dlon == WrapLon(lon1 - lon2)
        dlon_scaled == TruncDiv(dlon * Cos(lat1), 1000)
    IN  Sqrt(dlat * dlat + dlon_scaled * dlon_scaled)

\* np.exp(-z), z in 1/1000, result in 1/10000: the series of exp(-z/16) to
\* the fourth order, squared four times
Exp(zm) ==
    IF zm >= 12000 THEN 0
    ELSE LET w1 == (zm * 10) \div 16
             w2 == (w1 * w1) \div 10000
             w3 == (w2 * w1) \div 10000
             w4 == (w3 * w1) \div 10000
             e0 == 10000 - w1 + w2 \div 2 - w3 \div 6 + w4 \div 24
             e1 == (e0 * e0) \div 10000
             e2 == (e1 * e1) \div 10000
             e3 == (e2 * e2) \div 10000
         IN  (e3 * e3) \div 10000

\* np.exp(-0.5 * (dist / sigma)**2) with sigma = INFLUENCE_RADIUS / 2
Influence(dist) ==
    LET sigma == INFLUENCE_RADIUS \div 2
    IN  Exp((dist * dist) \div ((2 * sigma * sigma) \div 1000))

\* pressure before the noise: BASE_PRESSURE + low_anomaly + high_anomaly
PressureBase(pt) ==
    LET low_lat_rad == Radians(LOW_LAT)
        low_lon_rad == Radians(LOW_LON)
        high_lat_rad == Radians(HIGH_LAT)
        high_lon_rad == Radians(HIGH_LON)
        low_influence ==
            Influence(angular_distance(pt[1], pt[2], low_lat_rad, low_lon_rad))
        high_influence ==
            Influence(angular_distance(pt[1], pt[2], high_lat_rad, high_lon_rad))
        low_influence_mirror ==
            Influence(angular_distance(pt[1], pt[2], -low_lat_rad,
                                       low_lon_rad + PI_MILLI))
        high_influence_mirror ==
            Influence(angular_distance(pt[1], pt[2], -high_lat_rad,
                                       high_lon_rad + PI_MILLI))
        low_anomaly ==
            TruncDiv((LOW_PRESSURE - BASE_PRESSURE)
                        * (low_influence + low_influence_mirror), 10000)
        high_anomaly ==
            TruncDiv((HIGH_PRESSURE - BASE_PRESSURE)
                        * (high_influence + high_influence_mirror), 10000)
    IN  BASE_PRESSURE + low_anomaly + high_anomaly

\* np.clip(pressure, 97600, 104800)
Clip(v) == Max(LOW_PRESSURE, Min(HIGH_PRESSURE, v))

\* generate_pressure(lats, lons) entered with the generator in state s; the
\* float32 cast keeps whole pascals below 2^24 as they are
generate_pressure(g, s) ==
    LET drawn == uniform(-NOISE_AMPLITUDE, NOISE_AMPLITUDE, Len(g),
                         seed(s, SEED))
    IN  [pressure |-> [k \in 1 .. Len(g) |->
                          Clip(PressureBase(g[k]) + drawn.out[k])],
         rng |-> drawn.rng]

\* generate_uniform(value, ...): np.full(O1280_POINTS, value)
generate_uniform(v) == UniformData(O1280_POINTS, v)

\* generate_cyclone(lats, lons) over the arrays, with its default arguments
CycloneField(g) ==
    LET dflt == [center_lat |-> 0, center_lon |-> 0, max_wind |-> 25,
                 core_radius |-> 100, outer_radius |-> 800]
    IN  [k \in 1 .. Len(g) |->
            LET c == generate_cyclone(g[k][1], g[k][2], dflt)
            IN  <<c.u, c.v>>]

\* grid points (lat, lon): the low centre and a point of the antimeridian
SynthPoints == {<<174, 174>>, <<0, 3142>>}

RECURSIVE SeqsUpTo(_, _)
SeqsUpTo(S, n) ==
    IF n = 0 THEN {<<>>}
    ELSE LET shorter == SeqsUpTo(S, n - 1)
         IN  shorter \cup {Append(q, e) : q \in shorter, e \in S}

Grids == SeqsUpTo(SynthPoints, MaxPoints)

SynthScripts ==
    {"generate_pressure_fixtures", "generate_wind_fixtures", "generate_test_bins"}

NoCall == [fn |-> "none", rng_before |-> 0]

\* generate_pressure_fixtures.py main: pressure = generate_pressure(lats, lons)
\* and the write of pressure-low-high.bin
PressureMain ==
    /\ script = "generate_pressure_fixtures"
    /\ pc = "main"
    /\ LET r == generate_pressure(grid, rng)
       IN  /\ rng' = r.rng
           /\ files' = files \cup {[name |-> "pressure-low-high.bin",
                                    content |-> r.pressure]}
    /\ last' = [fn |-> "generate_pressure", rng_before |-> rng]
    /\ entered' = IF entered = <<>> THEN <<rng>> ELSE entered
    /\ varied' = (varied \/ (entered # <<>> /\ entered[1] # rng))
    /\ UNCHANGED <<topoVars, sampVars, rendVars, fixtVars, discVars, toolVars, grid>>

\* generate_wind_fixtures.py main: u, v = generate_cyclone(lats, lons) and the
\* write of the two wind files
WindMain ==
    /\ script = "generate_wind_fixtures"
    /\ pc = "main"
    /\ LET uv == CycloneField(grid)
       IN  files' = files \cup
                {[name |-> "wind-cyclone-u.bin",
                  content |-> [k \in 1 .. Len(grid) |-> uv[k][1]]],
                 [name |-> "wind-cyclone-v.bin",
                  content |-> [k \in 1 .. Len(grid) |-> uv[k][2]]]}
    /\ last' = [fn |-> "generate_cyclone", rng_before |-> rng]
    /\ UNCHANGED <<topoVars, sampVars, rendVars, fixtVars, discVars, toolVars, rng, grid,
                   entered, varied>>

\* generate_test_bins.py main: generate_uniform(55.0, ...), (-20.0, ...)
UniformMain ==
    /\ script = "generate_test_bins"
    /\ pc = "main"
    /\ \E f \in {[v |-> 55, name |-> "uniform-55.bin"],
                 [v |-> -20, name |-> "uniform-minus20.bin"]} :
          files' = files \cup {[name |-> f.name,
                                content |-> generate_uniform(f.v)]}
    /\ last' = [fn |-> "generate_uniform", rng_before |-> rng]
    /\ UNCHANGED <<topoVars, sampVars, rendVars, fixtVars, discVars, toolVars, rng, grid,
                   entered, varied>>

\* a new interpreter runs one of the scripts: importing numpy seeds the global
\* generator from the operating system; the files of earlier runs remain
NewProcess ==
    /\ pc = "main"
    /\ script' \in SynthScripts
    /\ rng' \in RngStates
    /\ last' = NoCall
    /\ UNCHANGED <<res, pc, i, cumulative, lats, offsets, ring, idx,
                   sampVars, rendVars, fixtVars, discVars, toolVars, grid, files, entered,
                   varied>>

-----------------------------------------------------------------------------
\* Timestep discovery (scripts/test-discovery.py)
\*
\* A datetime is a whole number of hours; a timestep string is what strftime
\* makes of it.

MaxRuns == 3

\* dt.strftime("%Y-%m-%dT%H%M"): the date and the four digits HHMM
Strftime(dt) == <<dt \div 24, (dt % 24) * 100>>

\* datetime.strptime(basename, "%Y-%m-%dT%H%M") of parse_timestep_from_filename
Strptime(str) == str[1] * 24 + str[2] \div 100

\* one entry of discover_runs: the folder .../YYYY/MM/DD/HH00Z/ of the run
RunAt(dt) ==
    [prefix |-> <<"data_spatial", Strftime(dt)>>,
     datetime |-> dt,
     run |-> (dt % 24) * 100]

\* mutant: the runs are walked oldest first
NotReversed(q) == q

\* reversed(runs)
Reversed(q) == [k \in 1 .. Len(q) |-> q[Len(q) + 1 - k]]

\* the body under "if ts_str not in seen": append the record, add to seen
AddTimestep(acc, ts_dt, run, url) ==
    LET ts_str == Strftime(ts_dt)
    IN  IF ts_str \in acc.seen THEN acc
        ELSE [timesteps |-> Append(acc.timesteps,
                                   [timestep |-> ts_str,
                                    datetime |-> ts_dt,
                                    run |-> run.run,
                                    run_datetime |-> run.datetime,
                                    url |-> url]),
              seen |-> acc.seen \cup {ts_str}]

\* for f in files: the key f is the run folder and the file's basename
RECURSIVE LastRunLoop(_, _, _, _)
LastRunLoop(acc, run, fl, k) ==
    IF k > Len(fl) THEN acc
    ELSE LastRunLoop(AddTimestep(acc, Strptime(fl[k]), run, <<run.prefix, fl[k]>>),
                     run, fl, k + 1)

\* for h in range(6) / for h in [0, 3]: run_dt + timedelta(hours=h)
RECURSIVE PreviousRunLoop(_, _, _, _)
PreviousRunLoop(acc, run, hs, k) ==
    IF k > Len(hs) THEN acc
    ELSE LET ts_dt == run.datetime + hs[k]
         IN  PreviousRunLoop(AddTimestep(acc, ts_dt, run,
                                         <<run.prefix, Strftime(ts_dt)>>),
                             run, hs, k + 1)

\* for i, run in enumerate(reversed(runs)); k is i + 1
RECURSIVE RunsLoop(_, _, _, _, _)
RunsLoop(acc, rev, fl, hs, k) ==
    IF k > Len(rev) THEN acc
    ELSE RunsLoop(IF k = 1 THEN LastRunLoop(acc, rev[k], fl, 1)
                  ELSE PreviousRunLoop(acc, rev[k], hs, 1),
                  rev, fl, hs, k + 1)

\* sorted(timesteps, key=lambda t: t['datetime']): stable, ascending
RECURSIVE SortedByDatetime(_)
SortedByDatetime(q) ==
    IF Len(q) <= 1 THEN q
    ELSE LET rest == SortedByDatetime(Tail(q))
             before == SelectSeq(rest, LAMBDA t : t.datetime < Head(q).datetime)
             after == SelectSeq(rest, LAMBDA t : t.datetime >= Head(q).datetime)
         IN  before \o <<Head(q)>> \o after

\* the two generators differ in the hours taken from each previous run
GenerateTimesteps(rs, fl, hs) ==
    IF rs = <<>> THEN <<>>
    ELSE SortedByDatetime(
             RunsLoop([timesteps |-> <<>>, seen |-> {}], Reversed(rs), fl, hs, 1)
                 .timesteps)

generate_timesteps_ecmwf_ifs(rs, fl) ==
    GenerateTimesteps(rs, fl, <<0, 1, 2, 3, 4, 5>>)

generate_timesteps_ecmwf_ifs025(rs, fl) ==
    GenerateTimesteps(rs, fl, <<0, 3>>)

\* run start times: three hours apart, six hours apart, and late in a day
RunTimes == {6, 9, 12, 21}

\* files of the last run, as hours after its start (one lies before it)
FileOffsets == {-3, 0, 1, 3}

RECURSIVE SortedSeq(_)
SortedSeq(S) ==
    IF S = {} THEN <<>>
    ELSE LET m == CHOOSE e \in S : \A o \in S : e <= o
         IN  <<m>> \o SortedSeq(S \ {m})

\* discover_runs returns the runs sorted by datetime
RunLists ==
    {[k \in 1 .. Cardinality(S) |-> RunAt(SortedSeq(S)[k])] :
        S \in {T \in SUBSET RunTimes : Cardinality(T) <= MaxRuns}}

\* list_run_files returns the keys sorted
Listings(rs) ==
    IF rs = <<>> THEN {<<>>}
    ELSE {[k \in 1 .. Cardinality(S) |->
              Strftime(rs[Len(rs)].datetime + SortedSeq(S)[k])] :
            S \in SUBSET FileOffsets}

\* main: timesteps = generate_timesteps_ecmwf_ifs(runs)
GenerateIfs ==
    /\ script = "test-discovery"
    /\ pc = "generate"
    /\ model = "ecmwf_ifs"
    /\ timesteps' = generate_timesteps_ecmwf_ifs(runs, listing)
    /\ pc' = "generated"
    /\ UNCHANGED <<script, res, i, cumulative, lats, offsets, ring, idx,
                   sampVars, rendVars, fixtVars, synthVars, toolVars, model, runs,
                   listing>>

\* main: timesteps = generate_timesteps_ecmwf_ifs025(runs)
GenerateIfs025 ==
    /\ script = "test-discovery"
    /\ pc = "generate"
    /\ model = "ecmwf_ifs025"
    /\ timesteps' = generate_timesteps_ecmwf_ifs025(runs, listing)
    /\ pc' = "generated"
    /\ UNCHANGED <<script, res, i, cumulative, lats, offsets, ring, idx,
                   sampVars, rendVars, fixtVars, synthVars, toolVars, model, runs,
                   listing>>

-----------------------------------------------------------------------------
\* Verification sample (scripts/test-discovery.py verify_timesteps)

MaxSteps == 12

\* main: verify_timesteps(timesteps, sample_count=10)
SAMPLE_COUNT == 10

\* range(start, stop, step) for step > 0, as a set
Range(start, stop, step) ==
    {start + j * step : j \in {m \in 0 .. stop : start + m * step < stop}}

\* step = len(timesteps) // (sample_count - 2) if sample_count > 2 else 1
SampleStep(n, sample_count) ==
    IF sample_count > 2 THEN n \div (sample_count - 2) ELSE 1

\* indices = [0, len - 1]; indices.extend(range(step, len - 1, step));
\* indices = sorted(set(indices))[:sample_count]
SampleIndices(n, sample_count) ==
    LET all == SortedSeq({0, n - 1}
                         \cup Range(SampleStep(n, sample_count), n - 1,
                                    SampleStep(n, sample_count)))
    IN  SubSeq(all, 1, Min(sample_count, Len(all)))

\* a list of n timesteps: a single run whose folder holds n hourly files
HourlyTimesteps(n) ==
    generate_timesteps_ecmwf_ifs(<<RunAt(0)>>, [k \in 1 .. n |-> Strftime(k - 1)])

\* the sample is chosen; range() raises ValueError for a step of zero
SelectSample ==
    /\ script = "test-discovery"
    /\ pc = "verify"
    /\ IF SampleStep(Len(timesteps), SAMPLE_COUNT) = 0
       THEN /\ pc' = "ValueError"
            /\ UNCHANGED sample
       ELSE /\ sample' = SampleIndices(Len(timesteps), SAMPLE_COUNT)
            /\ pc' = "probing"
    /\ UNCHANGED <<script, res, i, cumulative, lats, offsets, ring, idx,
                   sampVars, rendVars, fixtVars, synthVars, discVars,
                   probe, report, cliVars, tripVars>>

\* urlopen returns a response: "OK" for status 200, else "FAIL (status)"
ProbeResponse ==
    /\ script = "test-discovery"
    /\ pc = "probing"
    /\ probe < Len(sample)
    /\ \E status \in {200, 204} :
          report' = Append(report,
                           IF status = 200 THEN <<sample[probe + 1], "OK", status>>
                           ELSE <<sample[probe + 1], "FAIL", status>>)
    /\ probe' = probe + 1
    /\ UNCHANGED <<topoVars, sampVars, rendVars, fixtVars, synthVars, discVars,
                   sample, cliVars, tripVars>>

\* urlopen raises HTTPError: caught, "FAIL (code)"
ProbeHTTPError ==
    /\ script = "test-discovery"
    /\ pc = "probing"
    /\ probe < Len(sample)
    /\ \E code \in {404} :
          report' = Append(report, <<sample[probe + 1], "FAIL", code>>)
    /\ probe' = probe + 1
    /\ UNCHANGED <<topoVars, sampVars, rendVars, fixtVars, synthVars, discVars,
                   sample, cliVars, tripVars>>

\* urlopen raises URLError (no connection, no name, timeout): there is no
\* handler for it, so it leaves verify_timesteps and main
ProbeURLError ==
    /\ script = "test-discovery"
    /\ pc = "probing"
    /\ probe < Len(sample)
    /\ pc' = "URLError"
    /\ UNCHANGED <<script, res, i, cumulative, lats, offsets, ring, idx,
                   sampVars, rendVars, fixtVars, synthVars, discVars,
                   verVars, cliVars, tripVars>>

\* the loop over indices is exhausted
VerifyReturn ==
    /\ script = "test-discovery"
    /\ pc = "probing"
    /\ probe = Len(sample)
    /\ pc' = "verified"
    /\ UNCHANGED <<script, res, i, cumulative, lats, offsets, ring, idx,
                   sampVars, rendVars, fixtVars, synthVars, discVars,
                   verVars, cliVars, tripVars>>

-----------------------------------------------------------------------------
\* Command line of the converters (scripts/temp-to-png.py and
\* test/temp-to-png.py, main)
\*
\* A path is a sequence of pieces; ".bin" and ".png" are pieces of their own
\* and no other pieces put together spell ".bin".

MaxPath == 4

PathPieces == {"t", "/", ".bin", ".png"}

\* str.replace('.bin', '.png'): every occurrence, left to right
Replace(str, old, new) ==
    [k \in 1 .. Len(str) |-> IF str[k] = old THEN new ELSE str[k]]

\* the paths a caller may name
Paths == SeqsUpTo(PathPieces, MaxPath) \ {<<>>}

\* sys.argv: the program alone, with an input path, or with an output path too
ArgVectors ==
    {<<"temp-to-png.py">>}
        \cup {<<"temp-to-png.py", f>> : f \in Paths}
        \cup {<<"temp-to-png.py", f, <<"out", ".png">>>> : f \in Paths}

\* main up to output_file: usage and sys.exit(1) without an input path
ParseArgs ==
    /\ script \in {"temp-to-png", "test/temp-to-png"}
    /\ pc = "args"
    /\ IF Len(argv) < 2
       THEN /\ pc' = "exit_1"
            /\ UNCHANGED <<input_file, output_file>>
       ELSE /\ input_file' = argv[2]
            /\ output_file' = IF Len(argv) > 2 THEN argv[3]
                              ELSE Replace(argv[2], ".bin", ".png")
            /\ pc' = "parsed"
    /\ UNCHANGED <<script, res, i, cumulative, lats, offsets, ring, idx,
                   sampVars, rendVars, fixtVars, synthVars, discVars,
                   verVars, argv, tripVars>>

-----------------------------------------------------------------------------
\* Grid coordinates (tests/scripts/generate_pressure_fixtures.py
\* generate_gaussian_grid) handed back to the sampler

\* mutant: the longitudes start one cell to the east
GridLonNextCell(i0, n_points, e) == LonRat(i0 + 1, n_points, e)

\* lon_rad = (2 * np.pi * i) / n_points, then lons[idx] = lon_rad.  e = 0 is
\* the exact quotient; e = -1 is a float32 store that rounded it down.
GridLon(i0, n_points, e) == LonRat(i0, n_points, e)

\* what the loops write for ring r, position i0: idx has counted every point
\* of the rings before r and the i0 points before this one
GridPointAt(n, r, i0, e) ==
    [ring |-> r,
     i |-> i0,
     idx |-> RingPointSum(n, 0, r) + i0,
     lat |-> Float32(RingLatRad(n, r)),
     lon |-> GridLon(i0, points_in_ring(n, r), e)]

\* rings and positions visited: all of them on the small grids
TripRings ==
    IF res = N THEN {0, 1, N - 1, N, 2 * N - 1} ELSE 0 .. (NUM_RINGS(res) - 1)

TripPositions(n_points) ==
    IF res = N THEN {0, 1, n_points \div 2, n_points - 1} ELSE 0 .. (n_points - 1)

\* generate_gaussian_grid: one pass of the inner loop
GridPoint ==
    /\ pc = "grid_point"
    /\ \E r \in TripRings :
        \E i0 \in TripPositions(points_in_ring(res, r)) :
            \E e \in (IF i0 = 0 THEN {0} ELSE {0, -1}) :
                point' = GridPointAt(res, r, i0, e)
    /\ pc' = "point_written"
    /\ UNCHANGED <<script, res, i, cumulative, lats, offsets, ring, idx,
                   sampVars, rendVars, fixtVars, synthVars, discVars,
                   verVars, cliVars>>

\* get_value(lat_k, lon_k, data, lats, offsets) on the point just written
SamplePoint ==
    /\ pc = "point_written"
    /\ \E out \in get_value(point.lat, point.lon, IndexData(cumulative)) :
          /\ lat' = point.lat
          /\ lon' = point.lon
          /\ data' = IndexData(cumulative)
          /\ found' = out.found
          /\ ring' = out.ring
          /\ lon_idx' = out.lon_idx
          /\ idx' = out.idx
          /\ value' = out.value
          /\ pc' = IF out.err THEN "OverflowError" ELSE "round_trip"
    /\ UNCHANGED <<script, res, i, cumulative, lats, offsets,
                   rendVars, fixtVars, synthVars, discVars, toolVars>>

\* no get_value call has been made
NoLon == [kind |-> "none", num |-> 0, den |-> 1, eps |-> 0, exp |-> 0]

SampIdle ==
    /\ lat = 0
    /\ lon = NoLon
    /\ data = IndexData(0)
    /\ found = 0
    /\ lon_idx = 0
    /\ value = 0

\* no pixel has been rendered
RendIdle ==
    /\ x = 0
    /\ y = 0
    /\ values = <<>>
    /\ pixels = <<>>
    /\ data_min = 0
    /\ data_max = 0
    /\ data_range = 0
    /\ min_t = <<>>
    /\ max_t = <<>>

FixtIdle == cyc = NoCyclone

SynthIdle ==
    /\ rng = 0
    /\ grid = <<>>
    /\ files = {}
    /\ last = NoCall
    /\ entered = <<>>
    /\ varied = FALSE

DiscIdle ==
    /\ model = "none"
    /\ runs = <<>>
    /\ listing = <<>>
    /\ timesteps = <<>>

NoPoint == [ring |-> 0, i |-> 0, idx |-> 0, lat |-> 0, lon |-> NoLon]

ToolIdle ==
    /\ sample = <<>>
    /\ probe = 0
    /\ report = <<>>
    /\ argv = <<>>
    /\ input_file = <<>>
    /\ output_file = <<>>
    /\ point = NoPoint

\* the value arrays given to the renderers: uniform fields, complete or
\* truncated, and an index-valued array
RenderInputs ==
    {UniformData(len, c) : len \in {cumulative, cumulative \div 2}, c \in Temps}
    \cup {IndexData(cumulative)}

\* The topology builders on their own: generate_ring_offsets for any
\* resolution, generate_gaussian_grid for the program's N.
InitTopology ==
    /\ script \in {"generate_ring_offsets", "generate_gaussian_grid"}
    /\ res \in IF script = "generate_gaussian_grid" THEN {N} ELSE GridSizes
    /\ pc = IF script = "generate_gaussian_grid" THEN "grid" ELSE "offsets"
    /\ i = 0
    /\ cumulative = 0
    /\ lats = <<>>
    /\ offsets = <<>>
    /\ ring = 0
    /\ idx = 0
    /\ SampIdle
    /\ RendIdle
    /\ FixtIdle
    /\ SynthIdle
    /\ DiscIdle
    /\ ToolIdle

NextTopology ==
    \/ OffsetsStep
    \/ OffsetsReturn
    \/ GridRing
    \/ GridReturn

SpecTopology == InitTopology /\ [][NextTopology]_vars

\* temp-to-png.py main after "Generate LUTs": both tables are built, the
\* pixel loop calls get_value
InitSampler ==
    /\ script = "temp-to-png"
    /\ res \in GridSizes
    /\ pc = "offsets_done"
    /\ i = NUM_RINGS(res)
    /\ cumulative = RingPointSum(res, 0, NUM_RINGS(res))
    /\ lats = generate_gaussian_lats(res)
    /\ offsets = generate_ring_offsets(res)
    /\ ring = 0
    /\ idx = 0
    /\ SampIdle
    /\ RendIdle
    /\ FixtIdle
    /\ SynthIdle
    /\ DiscIdle
    /\ ToolIdle

NextSampler == GetValue

SpecSampler == InitSampler /\ [][NextSampler]_vars

\* either renderer's main after "Generate LUTs", before the pixel loops
InitReproject ==
    /\ script \in {"temp-to-png", "test/temp-to-png"}
    /\ res \in GridSizes
    /\ pc = "pass1"
    /\ i = NUM_RINGS(res)
    /\ cumulative = RingPointSum(res, 0, NUM_RINGS(res))
    /\ lats = generate_gaussian_lats(res)
    /\ offsets = generate_ring_offsets(res)
    /\ ring = 0
    /\ idx = 0
    /\ lat = 0
    /\ lon = NoLon
    /\ data \in RenderInputs
    /\ found = 0
    /\ lon_idx = 0
    /\ value = 0
    /\ RendIdle
    /\ FixtIdle
    /\ SynthIdle
    /\ DiscIdle
    /\ ToolIdle

NextReproject ==
    \/ GrayPass1Pixel
    \/ GrayMinMax
    \/ GrayPass2Pixel
    \/ HuePixel
    \/ Save

SpecReproject == InitReproject /\ [][NextReproject]_vars

\* generate_wind_fixtures.py main, at its call of generate_cyclone
InitCyclone ==
    /\ script = "generate_wind_fixtures"
    /\ res = N
    /\ pc = "cyclone"
    /\ i = 0
    /\ cumulative = 0
    /\ lats = <<>>
    /\ offsets = <<>>
    /\ ring = 0
    /\ idx = 0
    /\ SampIdle
    /\ RendIdle
    /\ FixtIdle
    /\ SynthIdle
    /\ DiscIdle
    /\ ToolIdle

NextCyclone == GenerateCyclone

SpecCyclone == InitCyclone /\ [][NextCyclone]_vars

\* the fixture scripts, run again and again over one grid
InitSynth ==
    /\ script \in SynthScripts
    /\ res = N
    /\ pc = "main"
    /\ i = 0
    /\ cumulative = 0
    /\ lats = <<>>
    /\ offsets = <<>>
    /\ ring = 0
    /\ idx = 0
    /\ SampIdle
    /\ RendIdle
    /\ FixtIdle
    /\ rng \in RngStates
    /\ grid \in Grids
    /\ files = {}
    /\ last = NoCall
    /\ entered = <<>>
    /\ varied = FALSE
    /\ DiscIdle
    /\ ToolIdle

NextSynth ==
    \/ PressureMain
    \/ WindMain
    \/ UniformMain
    \/ NewProcess

SpecSynth == InitSynth /\ [][NextSynth]_vars

\* test-discovery.py main, after discover_runs
InitDiscovery ==
    /\ script = "test-discovery"
    /\ res = N
    /\ pc = "generate"
    /\ i = 0
    /\ cumulative = 0
    /\ lats = <<>>
    /\ offsets = <<>>
    /\ ring = 0
    /\ idx = 0
    /\ SampIdle
    /\ RendIdle
    /\ FixtIdle
    /\ SynthIdle
    /\ model \in {"ecmwf_ifs", "ecmwf_ifs025"}
    /\ runs \in RunLists
    /\ listing \in Listings(runs)
    /\ timesteps = <<>>
    /\ ToolIdle

NextDiscovery ==
    \/ GenerateIfs
    \/ GenerateIfs025

SpecDiscovery == InitDiscovery /\ [][NextDiscovery]_vars

\* test-discovery.py main with --verify, at its call of verify_timesteps
InitVerify ==
    /\ script = "test-discovery"
    /\ res = N
    /\ pc = "verify"
    /\ i = 0
    /\ cumulative = 0
    /\ lats = <<>>
    /\ offsets = <<>>
    /\ ring = 0
    /\ idx = 0
    /\ SampIdle
    /\ RendIdle
    /\ FixtIdle
    /\ SynthIdle
    /\ model = "ecmwf_ifs"
    /\ runs = <<RunAt(0)>>
    /\ \E n \in 0 .. MaxSteps :
          /\ listing = [k \in 1 .. n |-> Strftime(k - 1)]
          /\ timesteps = HourlyTimesteps(n)
    /\ ToolIdle

NextVerify ==
    \/ SelectSample
    \/ ProbeResponse
    \/ ProbeHTTPError
    \/ ProbeURLError
    \/ VerifyReturn

SpecVerify == InitVerify /\ [][NextVerify]_vars

\* a converter is started with some command line
InitCli ==
    /\ script \in {"temp-to-png", "test/temp-to-png"}
    /\ res = N
    /\ pc = "args"
    /\ i = 0
    /\ cumulative = 0
    /\ lats = <<>>
    /\ offsets = <<>>
    /\ ring = 0
    /\ idx = 0
    /\ SampIdle
    /\ RendIdle
    /\ FixtIdle
    /\ SynthIdle
    /\ DiscIdle
    /\ sample = <<>>
    /\ probe = 0
    /\ report = <<>>
    /\ argv \in ArgVectors
    /\ input_file = <<>>
    /\ output_file = <<>>
    /\ point = NoPoint

NextCli == ParseArgs

SpecCli == InitCli /\ [][NextCli]_vars

\* the tables are built; grid points are written and sampled back
InitRoundTrip ==
    /\ script = "temp-to-png"
    /\ res \in GridSizes
    /\ pc = "grid_point"
    /\ i = NUM_RINGS(res)
    /\ cumulative = RingPointSum(res, 0, NUM_RINGS(res))
    /\ lats = generate_gaussian_lats(res)
    /\ offsets = generate_ring_offsets(res)
    /\ ring = 0
    /\ idx = 0
    /\ SampIdle
    /\ RendIdle
    /\ FixtIdle
    /\ SynthIdle
    /\ DiscIdle
    /\ ToolIdle

NextRoundTrip ==
    \/ GridPoint
    \/ SamplePoint

SpecRoundTrip == InitRoundTrip /\ [][NextRoundTrip]_vars

-----------------------------------------------------------------------------
\* Claims

\* The ring point count as the data model states it
ClaimRingFromPole(n, k) == IF k < n THEN k + 1 ELSE 2 * n - k
ClaimPointCount(n, k) == 4 * ClaimRingFromPole(n, k) + 16

\* sum of ClaimPointCount(n, k) for lo <= k < hi
RECURSIVE ClaimPointSum(_, _, _)
ClaimPointSum(n, lo, hi) ==
    IF hi <= lo THEN 0
    ELSE IF hi = lo + 1 THEN ClaimPointCount(n, lo)
    ELSE LET mid == (lo + hi) \div 2
         IN  ClaimPointSum(n, lo, mid) + ClaimPointSum(n, mid, hi)

ClaimTotalPoints(n) == ClaimPointSum(n, 0, 2 * n)

\* C1: the offset table is the exclusive prefix sum of the ring point counts
\* (first entry 0, each entry the previous one plus the previous ring's count,
\* last entry plus last count = the sum of all counts), for N = 1280 the total
\* is O1280_POINTS, and generate_gaussian_grid's running index never passes
\* the array length and ends exactly on it.
C1_OffsetsArePrefixSums ==
    /\ script = "generate_ring_offsets" =>
        /\ Len(offsets) >= 1 => offsets[1] = 0
        /\ \A k \in 1..(Len(offsets) - 1) :
              offsets[k + 1] = offsets[k] + ClaimPointCount(res, k - 1)
        /\ pc = "offsets_done" =>
              /\ Len(offsets) = 2 * res
              /\ offsets[2 * res] + ClaimPointCount(res, 2 * res - 1)
                    = ClaimTotalPoints(res)
              /\ cumulative = ClaimTotalPoints(res)
              /\ res = N => cumulative = O1280_POINTS
    /\ script = "generate_gaussian_grid" =>
        /\ pc # "IndexError"
        /\ idx <= O1280_POINTS
        /\ pc = "grid_done" => idx = O1280_POINTS

C1_Witness ==
    /\ script = "generate_gaussian_grid"
    /\ pc = "grid_done"
    /\ ring = 2560
    /\ idx = 6599680

\* C2: the latitude table is strictly decreasing; find_ring of a ring's own
\* centre latitude is that ring; a query above every centre gives 0 and a
\* query below every centre gives, after the clamp, the last ring.
C2_FindRingSelfConsistent ==
    /\ pc = "offsets_done" =>
          \A k \in 1..(Len(lats) - 1) : lats[k] > lats[k + 1]
    /\ pc = "sampled" =>
        /\ \A k \in 1..Len(lats) : lats[k] = lat => found = k - 1
        /\ lat > lats[1] => found = 0
        /\ lat < lats[Len(lats)] => ring = 2 * res - 1

C2_Witness ==
    /\ pc = "sampled"
    /\ res = N
    /\ lat = lats[2 * N]
    /\ found = 2 * N - 1

\* C3 (as claimed): get_value never fails for a finite query and a value
\* array of any length; ring, in-ring index and flat index are in range and
\* the result is data[idx] when idx < len(data), else 0.
C3_NeverFailsInRange ==
    /\ pc # "OverflowError"
    /\ pc = "sampled" =>
        /\ ring \in 0..(2 * res - 1)
        /\ lon_idx \in 0..(ClaimPointCount(res, ring) - 1)
        /\ idx = offsets[ring + 1] + lon_idx
        /\ value = IF idx < data.len THEN idx + 1 ELSE 0

CircAdjacent(a, b, n) == (a - b) % n \in {0, 1, n - 1}

SeamPartner(lo) ==
    IF lo = MinusPi THEN PiMinusEps
    ELSE IF lo = PiMinusEps THEN MinusPi
    ELSE IF lo = LonZero THEN MinusEps
    ELSE LonZero

\* C4: on every ring, the in-ring index sampled at lon = -pi and the one
\* sampled one ulp below +pi are identical or adjacent modulo the ring's
\* point count, the same holds for lon = 0 and one ulp below 0, and every one
\* of these indices lies inside the ring.
C4_SeamContinuity ==
    (pc = "sampled" /\ lon \in {MinusPi, PiMinusEps, LonZero, MinusEps}) =>
        LET n == ClaimPointCount(res, ring)
        IN  /\ lon_idx \in 0..(n - 1)
            /\ \A j \in LonIdxChoices(SeamPartner(lon), n) :
                  j \in 0..(n - 1) /\ CircAdjacent(j, lon_idx, n)

C4_Witness ==
    /\ pc = "sampled"
    /\ res = N
    /\ ring = N - 1
    /\ lon = PiMinusEps
    /\ lon_idx = 2567

\* lat in [-pi/2, pi/2] and lon in [-pi, pi)
QueryInRange ==
    /\ lat >= -HALF_PI_FX
    /\ lat <= HALF_PI_FX
    /\ lon.kind = "rat"
    /\ 2 * lon.num > -lon.den \/ (2 * lon.num = -lon.den /\ lon.eps = 0)
    /\ 2 * lon.num < lon.den \/ (2 * lon.num = lon.den /\ lon.eps = -1)

\* circular distance, in units of 1/(den * n) turn, from lon to point j of a
\* ring of n points
CircDist(lo, j, n) ==
    LET m == lo.den * n
        d == (lo.num * n - j * lo.den) % m
    IN  Min(d, m - d)

C6_UniformFieldUniformImage ==
    (pc = "saved" /\ data.uniform /\ data.len = ClaimTotalPoints(res)) =>
        /\ Len(pixels) = RasterW * RasterH
        /\ \A k \in 1..Len(pixels) : pixels[k] = pixels[1]
        /\ script = "temp-to-png" =>
              /\ \A k \in 1..Len(values) : values[k] = data.fill
              /\ data_range = 1
              /\ pixels[1] = 0
        /\ script = "test/temp-to-png" =>
              /\ min_t = <<data.fill>>
              /\ max_t = <<data.fill>>
              /\ data.fill = 55 => pixels[1] = <<255, 0, 0>>

C6_Witness ==
    /\ pc = "saved"
    /\ script = "test/temp-to-png"
    /\ res = N
    /\ data = [len |-> 6599680, uniform |-> TRUE, fill |-> 55]
    /\ pixels[RasterW * RasterH] = <<255, 0, 0>>

\* C7: the cyclone speed is in [0, max_wind] at every distance; at the exact
\* centre the speed, U and V are 0 and nothing is divided by zero; at
\* dist = core_radius the inside-core and the between-zone formula both give
\* max_wind; and the speed is 0 from outer_radius on.
C7_SpeedProfile ==
    pc = "cyclone_done" =>
        /\ cyc.speed[2] > 0 /\ cyc.u[2] > 0 /\ cyc.v[2] > 0
        /\ cyc.speed[1] >= 0
        /\ cyc.speed[1] <= cyc.p.max_wind * cyc.speed[2]
        /\ cyc.dist = 0 => cyc.speed[1] = 0 /\ cyc.u[1] = 0 /\ cyc.v[1] = 0
        /\ cyc.dist = cyc.p.core_radius =>
              /\ cyc.speed[1] = cyc.p.max_wind * cyc.speed[2]
              /\ SpeedInside(cyc.dist, cyc.p)[1]
                    = cyc.p.max_wind * SpeedInside(cyc.dist, cyc.p)[2]
              /\ SpeedBetween(cyc.dist, cyc.p)[1]
                    = cyc.p.max_wind * SpeedBetween(cyc.dist, cyc.p)[2]
        /\ cyc.dist >= cyc.p.outer_radius => cyc.speed[1] = 0

C7_Witness ==
    /\ pc = "cyclone_done"
    /\ cyc.p.max_wind = 25
    /\ cyc.dist = 100
    /\ cyc.speed = <<17500, 700>>

\* C8 (as claimed): wherever 0 < dist < outer_radius, with the offset from
\* the centre (east = dlon_scaled, north = dlat) and the wind (east = U,
\* north = V), the tangential part circulates counter-clockwise
\* (east_offset * V_tangential - north_offset * U_tangential > 0) and the
\* radial part points inward with magnitude 0.3 * speed (the offset times the
\* wind, multiplied by dist, is -0.3 * speed * dist^2).
C8_InwardCounterClockwise ==
    (pc = "cyclone_done" /\ cyc.dist > 0 /\ cyc.dist < cyc.p.outer_radius) =>
        /\ cyc.speed[1] > 0
        /\ cyc.dlon_scaled * cyc.tang_lat[1] - cyc.dlat * cyc.tang_lon[1] > 0
        /\ 10 * (cyc.dlon_scaled * (10 * cyc.tang_lon[1] + 3 * cyc.rad_lon[1])
                 + cyc.dlat * (10 * cyc.tang_lat[1] + 3 * cyc.rad_lat[1]))
              = -3 * 10 * cyc.dist2

\* the generator state k draws after np.random.seed(42)
RECURSIVE ClaimNthDraw(_)
ClaimNthDraw(k) ==
    IF k = 0 THEN SEED % RngMod ELSE (5 * ClaimNthDraw(k - 1) + 3) % RngMod

\* C9: every run of generate_pressure over the same grid writes the same
\* array, whatever the state of the global generator at its entry: point k
\* gets the k-th draw after the seed 42, in ascending index order; and
\* generate_cyclone and generate_uniform leave the generator as it was and
\* always write the same arrays.
C9_Reproducible ==
    /\ \A f1 \in files, f2 \in files :
          f1.name = f2.name => f1.content = f2.content
    /\ \A f \in files :
          f.name = "pressure-low-high.bin" =>
              /\ DOMAIN f.content = 1 .. Len(grid)
              /\ \A k \in 1 .. Len(grid) :
                    f.content[k] =
                        Clip(PressureBase(grid[k]) - NOISE_AMPLITUDE
                             + (2 * NOISE_AMPLITUDE * ClaimNthDraw(k)) \div RngMod)
    /\ last.fn \in {"generate_cyclone", "generate_uniform"} =>
          rng = last.rng_before

C9_Witness ==
    /\ varied
    /\ Len(grid) = 2
    /\ grid[1] # grid[2]
    /\ last.fn = "generate_pressure"
    /\ last.rng_before # entered[1]
    /\ \E f \in files : f.name = "pressure-low-high.bin" /\ f.content[1] # f.content[2]
    /\ \E f \in files : f.name = "wind-cyclone-u.bin"
    /\ \E f \in files : f.name = "wind-cyclone-v.bin"
    /\ \E f \in files : f.name = "uniform-55.bin"

\* the hours a previous run contributes
ClaimHours == IF model = "ecmwf_ifs" THEN 0 .. 5 ELSE {0, 3}

\* the timestep strings run k of runs offers
ClaimOffered(k) ==
    IF k = Len(runs) THEN {listing[j] : j \in 1 .. Len(listing)}
    ELSE {Strftime(runs[k].datetime + h) : h \in ClaimHours}

\* C10: the returned list is in ascending datetime order and holds exactly
\* one record per distinct timestep string among the files of the last run
\* and run start + h of each earlier run (h in 0..5, or in {0, 3} for
\* ecmwf_ifs025); the record kept for a timestep names the newest run that
\* offers it; and no runs give an empty list.
C10_MergedTimesteps ==
    pc = "generated" =>
        /\ runs = <<>> => timesteps = <<>>
        /\ \A a \in 1 .. Len(timesteps), b \in 1 .. Len(timesteps) :
              a < b => /\ timesteps[a].datetime <= timesteps[b].datetime
                       /\ timesteps[a].timestep # timesteps[b].timestep
        /\ {timesteps[a].timestep : a \in 1 .. Len(timesteps)}
              = UNION {ClaimOffered(k) : k \in 1 .. Len(runs)}
        /\ \A a \in 1 .. Len(timesteps) :
              LET t == timesteps[a]
                  newest == CHOOSE k \in 1 .. Len(runs) :
                                /\ t.timestep \in ClaimOffered(k)
                                /\ \A j \in (k + 1) .. Len(runs) :
                                      t.timestep \notin ClaimOffered(j)
              IN  /\ t.run = runs[newest].run
                  /\ t.run_datetime = runs[newest].datetime
                  /\ t.url = <<runs[newest].prefix, t.timestep>>
                  /\ t.timestep = Strftime(t.datetime)

C10_Witness ==
    /\ pc = "generated"
    /\ model = "ecmwf_ifs"
    /\ Len(runs) = 3
    /\ ClaimOffered(1) \cap ClaimOffered(2) # {}
    /\ ClaimOffered(2) \cap ClaimOffered(3) # {}
    /\ Len(listing) = 4
    /\ Len(timesteps) = 10
    /\ timesteps[4].run = 1200

\* C11 (as claimed): a failed probe, be it an HTTP error status or a failure
\* of the connection, is reported as FAIL for its item and the loop goes on:
\* no exception leaves verify_timesteps, every sampled index handled so far
\* has its line, and at the end every sampled index has been reported.
C11_FailedProbeTolerated ==
    /\ pc # "URLError"
    /\ pc \in {"probing", "verified"} =>
          /\ Len(report) = probe
          /\ \A k \in 1 .. probe : report[k][1] = sample[k]
    /\ pc = "verified" => probe = Len(sample)

\* C14 (as claimed): for a list of n >= 1 timesteps and sample_count = 10,
\* verify_timesteps does not raise while choosing the sample, and the sample
\* is at most sample_count distinct indices in 0..n-1 with 0 and n-1 among
\* them.
C14_SampleSelection ==
    Len(timesteps) >= 1 =>
        /\ pc # "ValueError"
        /\ pc \in {"probing", "verified"} =>
              /\ Len(sample) <= SAMPLE_COUNT
              /\ \A a \in 1 .. Len(sample), b \in 1 .. Len(sample) :
                    a # b => sample[a] # sample[b]
              /\ \A a \in 1 .. Len(sample) :
                    sample[a] \in 0 .. (Len(timesteps) - 1)
              /\ \E a \in 1 .. Len(sample) : sample[a] = 0
              /\ \E a \in 1 .. Len(sample) : sample[a] = Len(timesteps) - 1

\* C12 (as claimed): given only the input path, the output path is the input
\* path with its trailing ".bin" replaced by ".png" and nothing else changed,
\* and it always differs from the input path.
C12_DefaultOutputPath ==
    (pc = "parsed" /\ Len(argv) = 2) =>
        /\ output_file # input_file
        /\ input_file[Len(input_file)] = ".bin" =>
              output_file
                  = SubSeq(input_file, 1, Len(input_file) - 1) \o <<".png">>

\* C13: in exact arithmetic, sampling at the coordinates generate_gaussian_grid
\* gives to the point at ring r, position i, flat index k selects ring r and
\* in-ring index i, reads flat index k and returns data[k].  (A longitude
\* that the float32 store rounded down selects the same ring and position i
\* or its western neighbour; the claim does not cover it.)
C13_RoundTrip ==
    pc = "round_trip" =>
        /\ found = point.ring
        /\ ring = point.ring
        /\ point.lon.eps = 0 =>
              /\ lon_idx = point.i
              /\ idx = point.idx
              /\ idx = offsets[point.ring + 1] + point.i
              /\ value = DataAt(data, point.idx)
        /\ point.lon.eps = -1 => lon_idx \in {point.i, point.i - 1}

C13_Witness ==
    /\ pc = "round_trip"
    /\ res = N
    /\ point.ring = N
    /\ point.i = 5135
    /\ point.lon.eps = 0
    /\ idx = point.idx
    /\ value = idx + 1
    /\ idx > 3299840

====
